---- MODULE Spec2Model ----
(***************************************************************************)
(* A model of pytagspace (src/src/pytagspace/tag_space.py): the Tag index  *)
(* (value -> set of objects, with the reverse map object -> value) and the *)
(* TagSpace (tag name -> Tag).  Every method is one action; the caller     *)
(* makes one call at a time, observes what it returned or raised, and      *)
(* goes on to the next call.                                               *)
(***************************************************************************)
EXTENDS Integers, Sequences, FiniteSets, TLC

\* ------------------------------------------------------------------------
\* Bounds of the model.
NumObjs == 2        \* tagged objects are 1..NumObjs
NumValues == 2      \* tag values are 1..NumValues
MaxLen == 2         \* longest *objs tuple and longest list of tag values
MaxPairs == 2       \* most keyword pairs (and plain names) in one TagSpace call
MaxTags == 2        \* cap on the number of tags registered in the TagSpace

Objs == 1..NumObjs
Values == 1..NumValues

\* Python's None, as the value find_tag gives when no value is shared.
None == 0

\* Exceptions a call can end with; NoErr is a normal return.
NoErr == "ok"
ValueError == "ValueError"
TypeError == "TypeError"
KeyError == "KeyError"

\* All sequences over S of length at most n.
BSeq(S, n) == UNION {[1..k -> S] : k \in 0..n}

\* Range of a sequence.
Range(s) == {s[i] : i \in 1..Len(s)}

\* ------------------------------------------------------------------------
\* Arguments.  A tag value or selector is an exact value, a list/tuple of
\* values, a callable (given by the set of values it returns True on) or an
\* object of none of these shapes.
Val(v) == [kind |-> "value", v |-> v, vs |-> <<>>, p |-> {}]
Lst(vs) == [kind |-> "list", v |-> None, vs |-> vs, p |-> {}]
Fun(p) == [kind |-> "func", v |-> None, vs |-> <<>>, p |-> p]
Bad == [kind |-> "bad", v |-> None, vs |-> <<>>, p |-> {}]

\* Tag names are strings, kept as tuples of characters so that the reserved
\* prefix can be looked at.
NameP == <<"p">>
NameQ == <<"q">>
NameR == <<"_", "r">>
Names == {NameP, NameQ, NameR}

is_tag_name(name) == ~(Len(name) > 0 /\ name[1] = "_")

is_tag_value(a) == a.kind = "value"

\* functools.reduce over an empty list raises TypeError: the result is
\* "true", "false" or "raise".
is_tag_value_iterable(a) ==
    IF a.kind # "list" THEN "false"
    ELSE IF Len(a.vs) = 0 THEN "raise"
    ELSE IF \A i \in 1..Len(a.vs) : a.vs[i] \in Values THEN "true"
    ELSE "false"

is_tag_value_function(a) == a.kind = "func"

\* ------------------------------------------------------------------------
\* Dictionaries are functions on the set of their keys.
EmptyDict == <<>>

Put(d, k, x) == [y \in (DOMAIN d) \cup {k} |-> IF y = k THEN x ELSE d[y]]

Del(d, k) == [y \in (DOMAIN d) \ {k} |-> d[y]]

\* d[k] on a defaultdict(set): a missing key is inserted with an empty set.
Touch(d, k) == IF k \in DOMAIN d THEN d ELSE Put(d, k, {})

\* Tag.__init__
NewTag == [mapping |-> EmptyDict, reverse |-> EmptyDict]

\* What a Tag method leaves behind: the tag, the exception (or NoErr), and
\* the returned set of objects or value.
TagOut(t, err, objs, val) == [tag |-> t, err |-> err, objs |-> objs, val |-> val]

\* _tag as it would be without lines 51-53: the object is not taken out of the
\* set of the value it held.
_tag_keeps_old(t, obj, tag_value) ==
    LET m3 == Touch(t.mapping, tag_value)
    IN  TagOut([mapping |-> Put(m3, tag_value, m3[tag_value] \cup {obj}),
                reverse |-> Put(t.reverse, obj, tag_value)], NoErr, {}, None)

\* _tag as it would be with lines 52-53 moved after line 54: the object is
\* taken out of the set of the value it held once it has been added to the
\* set of the new value.
_tag_removes_last(t, obj, tag_value) ==
    LET m1 == Touch(t.mapping, tag_value)
        m2 == Put(m1, tag_value, m1[tag_value] \cup {obj})
        m3 == IF obj \in DOMAIN t.reverse THEN Touch(m2, t.reverse[obj]) ELSE m2
        m4 == IF obj \in DOMAIN t.reverse
              THEN Put(m3, t.reverse[obj], m3[t.reverse[obj]] \ {obj})
              ELSE m3
    IN  TagOut([mapping |-> m4, reverse |-> Put(t.reverse, obj, tag_value)],
               NoErr, {}, None)

\* Tag._tag
_tag(t, obj, tag_value) ==
    LET m1 == IF obj \in DOMAIN t.reverse THEN Touch(t.mapping, t.reverse[obj])
              ELSE t.mapping
        bad == obj \in DOMAIN t.reverse /\ obj \notin m1[t.reverse[obj]]
        m2 == IF obj \in DOMAIN t.reverse
              THEN Put(m1, t.reverse[obj], m1[t.reverse[obj]] \ {obj})
              ELSE m1
        m3 == Touch(m2, tag_value)
    IN  IF bad THEN TagOut([t EXCEPT !.mapping = m1], KeyError, {}, None)
        ELSE TagOut([mapping |-> Put(m3, tag_value, m3[tag_value] \cup {obj}),
                     reverse |-> Put(t.reverse, obj, tag_value)], NoErr, {}, None)

\* _remove_tag as it would be without lines 59-60: the reverse entries of the
\* removed value's objects stay.
_remove_tag_keeps_reverse(t, tag_value) ==
    IF tag_value \notin DOMAIN t.mapping THEN TagOut(t, NoErr, {}, None)
    ELSE TagOut([t EXCEPT !.mapping = Del(t.mapping, tag_value)], NoErr, {}, None)

\* _remove_tag as it would be with `self._mapping[tag_value].clear()` for line
\* 61: the value stays a key, with an empty set.
_remove_tag_keeps_slot(t, tag_value) ==
    IF tag_value \notin DOMAIN t.mapping THEN TagOut(t, NoErr, {}, None)
    ELSE TagOut([mapping |-> Put(t.mapping, tag_value, {}),
                 reverse |-> [o \in (DOMAIN t.reverse) \ t.mapping[tag_value]
                                 |-> t.reverse[o]]],
                NoErr, {}, None)

\* Tag._remove_tag
_remove_tag(t, tag_value) ==
    IF tag_value \notin DOMAIN t.mapping THEN TagOut(t, NoErr, {}, None)
    ELSE LET objs == t.mapping[tag_value]
             rev == [o \in (DOMAIN t.reverse) \ objs |-> t.reverse[o]]
         IN  IF objs \subseteq DOMAIN t.reverse
             THEN TagOut([mapping |-> Del(t.mapping, tag_value), reverse |-> rev],
                         NoErr, {}, None)
             ELSE TagOut([t EXCEPT !.reverse = rev], KeyError, {}, None)

\* for obj, value in zip(objs, values): self._tag(obj, value), from position i
RECURSIVE TagEach(_, _, _, _)
TagEach(t, objs, values, i) ==
    IF i > Len(objs) \/ i > Len(values) THEN TagOut(t, NoErr, {}, None)
    ELSE LET r == _tag(t, objs[i], values[i])
         IN  IF r.err # NoErr THEN r ELSE TagEach(r.tag, objs, values, i + 1)

\* Tag.tag as it would be if a single value were given to the first object only.
TagTagFirstOnly(t, objs, tag_value) ==
    IF is_tag_value(tag_value)
    THEN TagEach(t, objs, <<tag_value.v>>, 1)
    ELSE LET it == is_tag_value_iterable(tag_value)
         IN  IF it = "raise" THEN TagOut(t, TypeError, {}, None)
             ELSE IF it = "true" THEN TagEach(t, objs, tag_value.vs, 1)
             ELSE TagOut(t, ValueError, {}, None)

\* Tag.tag
TagTag(t, objs, tag_value) ==
    IF is_tag_value(tag_value)
    THEN TagEach(t, objs, [i \in 1..Len(objs) |-> tag_value.v], 1)
    ELSE LET it == is_tag_value_iterable(tag_value)
         IN  IF it = "raise" THEN TagOut(t, TypeError, {}, None)
             ELSE IF it = "true" THEN TagEach(t, objs, tag_value.vs, 1)
             ELSE TagOut(t, ValueError, {}, None)

\* [self._mapping[value] for value in values]: every value read is a key
\* afterwards.
RECURSIVE TouchAll(_, _, _)
TouchAll(m, values, i) ==
    IF i > Len(values) THEN m ELSE TouchAll(Touch(m, values[i]), values, i + 1)

\* Tag.find_objs
TagFindObjs(t, tag_value) ==
    IF is_tag_value(tag_value)
    THEN LET m == Touch(t.mapping, tag_value.v)
         IN  TagOut([t EXCEPT !.mapping = m], NoErr, m[tag_value.v], None)
    ELSE LET it == is_tag_value_iterable(tag_value)
         IN  IF it = "raise" THEN TagOut(t, TypeError, {}, None)
             ELSE IF it = "true"
             THEN LET m == TouchAll(t.mapping, tag_value.vs, 1)
                  IN  TagOut([t EXCEPT !.mapping = m], NoErr,
                             UNION {m[v] : v \in Range(tag_value.vs)}, None)
             ELSE IF is_tag_value_function(tag_value)
             THEN LET keys == {v \in DOMAIN t.mapping : v \in tag_value.p}
                  IN  IF keys = {} THEN TagOut(t, TypeError, {}, None)
                      ELSE TagOut(t, NoErr, UNION {t.mapping[v] : v \in keys}, None)
             ELSE TagOut(t, ValueError, {}, None)

\* The reduction as it would be with `lambda x, y: x`: the first object's value.
ReduceSharedFirst(x, vals, i) == x

\* functools.reduce(lambda x, y: x if x == y else None, vals), from position i
RECURSIVE ReduceShared(_, _, _)
ReduceShared(x, vals, i) ==
    IF i > Len(vals) THEN x
    ELSE ReduceShared(IF x = vals[i] THEN x ELSE None, vals, i + 1)

\* Tag.find_tag
TagFindTag(t, objs) ==
    LET vals == [i \in 1..Len(objs) |->
                    IF objs[i] \in DOMAIN t.reverse THEN t.reverse[objs[i]] ELSE None]
    IN  IF Len(objs) = 0 THEN TagOut(t, TypeError, {}, None)
        ELSE TagOut(t, NoErr, {}, ReduceShared(vals[1], vals, 2))

\* for value in values: self._remove_tag(value), from position i
RECURSIVE RemoveEach(_, _, _)
RemoveEach(t, values, i) ==
    IF i > Len(values) THEN TagOut(t, NoErr, {}, None)
    ELSE LET r == _remove_tag(t, values[i])
         IN  IF r.err # NoErr THEN r ELSE RemoveEach(r.tag, values, i + 1)

\* The keys a predicate qualifies, as the list remove_tags collects.
RECURSIVE SetToSeq(_)
SetToSeq(S) ==
    IF S = {} THEN <<>>
    ELSE LET x == CHOOSE y \in S : \A z \in S : y <= z
         IN  <<x>> \o SetToSeq(S \ {x})

\* remove_tags as it would be if an exact value emptied the whole tag.
TagRemoveTagsClears(t, tag_value) ==
    IF is_tag_value(tag_value) THEN TagOut(NewTag, NoErr, {}, None)
    ELSE LET it == is_tag_value_iterable(tag_value)
         IN  IF it = "raise" THEN TagOut(t, TypeError, {}, None)
             ELSE IF it = "true" THEN RemoveEach(t, tag_value.vs, 1)
             ELSE IF is_tag_value_function(tag_value)
             THEN RemoveEach(t, SetToSeq({v \in DOMAIN t.mapping : v \in tag_value.p}), 1)
             ELSE TagOut(t, ValueError, {}, None)

\* Tag.remove_tags
TagRemoveTags(t, tag_value) ==
    IF is_tag_value(tag_value) THEN _remove_tag(t, tag_value.v)
    ELSE LET it == is_tag_value_iterable(tag_value)
         IN  IF it = "raise" THEN TagOut(t, TypeError, {}, None)
             ELSE IF it = "true" THEN RemoveEach(t, tag_value.vs, 1)
             ELSE IF is_tag_value_function(tag_value)
             THEN RemoveEach(t, SetToSeq({v \in DOMAIN t.mapping : v \in tag_value.p}), 1)
             ELSE TagOut(t, ValueError, {}, None)

\* remove_objs as it would be without line 149: only the reverse entries go.
TagRemoveObjsReverseOnly(t, objs, i) ==
    TagOut([t EXCEPT !.reverse = [o \in (DOMAIN t.reverse) \ Range(objs) |-> t.reverse[o]]],
           NoErr, {}, None)

\* Tag.remove_objs, from position i
RECURSIVE TagRemoveObjsFrom(_, _, _)
TagRemoveObjsFrom(t, objs, i) ==
    IF i > Len(objs) THEN TagOut(t, NoErr, {}, None)
    ELSE IF objs[i] \notin DOMAIN t.reverse THEN TagRemoveObjsFrom(t, objs, i + 1)
    ELSE LET value == t.reverse[objs[i]]
             m == Touch(t.mapping, value)
         IN  IF objs[i] \notin m[value]
             THEN TagOut([t EXCEPT !.mapping = m], KeyError, {}, None)
             ELSE TagRemoveObjsFrom(
                     [mapping |-> Put(m, value, m[value] \ {objs[i]}),
                      reverse |-> Del(t.reverse, objs[i])], objs, i + 1)

TagRemoveObjs(t, objs) == TagRemoveObjsFrom(t, objs, 1)

\* Tag.clear
TagClear(t) == TagOut(NewTag, NoErr, {}, None)

\* ------------------------------------------------------------------------
\* TagSpace: a dict (is_strict) or a defaultdict(Tag) from tag name to Tag.

\* What a TagSpace method leaves behind: the mapping, the exception (or
\* NoErr), and the returned set of objects or dict of name -> value.
SpaceOut(sp, err, objs, tags) == [space |-> sp, err |-> err, objs |-> objs, tags |-> tags]

\* self._mapping[name] as it would be if the strict mapping, too, inserted the
\* missing name before raising.
SpaceGetItemInsertsFirst(sp, is_strict, name) ==
    IF name \in DOMAIN sp THEN SpaceOut(sp, NoErr, {}, EmptyDict)
    ELSE IF is_strict THEN SpaceOut(Put(sp, name, NewTag), KeyError, {}, EmptyDict)
    ELSE SpaceOut(Put(sp, name, NewTag), NoErr, {}, EmptyDict)

\* self._mapping[name] as it would be if the mapping were a dict in both modes.
SpaceGetItemAlwaysDict(sp, is_strict, name) ==
    IF name \in DOMAIN sp THEN SpaceOut(sp, NoErr, {}, EmptyDict)
    ELSE SpaceOut(sp, KeyError, {}, EmptyDict)

\* self._mapping[name]: KeyError on a dict, a fresh Tag on a defaultdict(Tag).
\* TagSpace.__getitem__ is this read.
SpaceGetItem(sp, is_strict, name) ==
    IF name \in DOMAIN sp THEN SpaceOut(sp, NoErr, {}, EmptyDict)
    ELSE IF is_strict THEN SpaceOut(sp, KeyError, {}, EmptyDict)
    ELSE SpaceOut(Put(sp, name, NewTag), NoErr, {}, EmptyDict)

\* TagSpace.tag as it would be if it passed over the names that are not
\* registered, as it passes over those with the reserved prefix.
RECURSIVE SpaceTagSkipsUnknown(_, _, _, _, _)
SpaceTagSkipsUnknown(sp, is_strict, objs, kw_tags, i) ==
    IF i > Len(kw_tags) THEN SpaceOut(sp, NoErr, {}, EmptyDict)
    ELSE IF ~is_tag_name(kw_tags[i].name) \/ kw_tags[i].name \notin DOMAIN sp
    THEN SpaceTagSkipsUnknown(sp, is_strict, objs, kw_tags, i + 1)
    ELSE LET r == TagTag(sp[kw_tags[i].name], objs, kw_tags[i].arg)
             sp2 == Put(sp, kw_tags[i].name, r.tag)
         IN  IF r.err # NoErr THEN SpaceOut(sp2, r.err, {}, EmptyDict)
             ELSE SpaceTagSkipsUnknown(sp2, is_strict, objs, kw_tags, i + 1)

\* TagSpace.tag, from keyword pair i
RECURSIVE SpaceTagFrom(_, _, _, _, _)
SpaceTagFrom(sp, is_strict, objs, kw_tags, i) ==
    IF i > Len(kw_tags) THEN SpaceOut(sp, NoErr, {}, EmptyDict)
    ELSE IF ~is_tag_name(kw_tags[i].name)
    THEN SpaceTagFrom(sp, is_strict, objs, kw_tags, i + 1)
    ELSE LET g == SpaceGetItem(sp, is_strict, kw_tags[i].name)
         IN  IF g.err # NoErr THEN g
             ELSE LET r == TagTag(g.space[kw_tags[i].name], objs, kw_tags[i].arg)
                      sp2 == Put(g.space, kw_tags[i].name, r.tag)
                  IN  IF r.err # NoErr THEN SpaceOut(sp2, r.err, {}, EmptyDict)
                      ELSE SpaceTagFrom(sp2, is_strict, objs, kw_tags, i + 1)

SpaceTag(sp, is_strict, objs, kw_tags) == SpaceTagFrom(sp, is_strict, objs, kw_tags, 1)

\* The reduction as it would be if it kept the first pair's result only.
ReduceFirstOnly(x, sets, i) == x

\* The reduction as it would be with `lambda x, y: x.difference(y)`.
ReduceDifference(x, sets, i) == x \ UNION {sets[j] : j \in i..Len(sets)}

\* functools.reduce(lambda x, y: x.intersection(y), sets), from position i
RECURSIVE ReduceIntersection(_, _, _)
ReduceIntersection(x, sets, i) ==
    IF i > Len(sets) THEN x ELSE ReduceIntersection(x \cap sets[i], sets, i + 1)

\* TagSpace.find_objs: the list of per-tag results is built pair by pair
\* (from pair i, with the results so far), then reduced.
RECURSIVE SpaceFindObjsFrom(_, _, _, _, _)
SpaceFindObjsFrom(sp, is_strict, kw_tags, i, sets) ==
    IF i > Len(kw_tags)
    THEN IF Len(sets) = 0 THEN SpaceOut(sp, TypeError, {}, EmptyDict)
         ELSE SpaceOut(sp, NoErr, ReduceIntersection(sets[1], sets, 2), EmptyDict)
    ELSE LET g == SpaceGetItem(sp, is_strict, kw_tags[i].name)
         IN  IF g.err # NoErr THEN g
             ELSE LET r == TagFindObjs(g.space[kw_tags[i].name], kw_tags[i].arg)
                      sp2 == Put(g.space, kw_tags[i].name, r.tag)
                  IN  IF r.err # NoErr THEN SpaceOut(sp2, r.err, {}, EmptyDict)
                      ELSE SpaceFindObjsFrom(sp2, is_strict, kw_tags, i + 1,
                                             Append(sets, r.objs))

SpaceFindObjs(sp, is_strict, kw_tags) == SpaceFindObjsFrom(sp, is_strict, kw_tags, 1, <<>>)

\* TagSpace.find_tags
SpaceFindTags(sp, objs) ==
    LET found == [n \in DOMAIN sp |-> TagFindTag(sp[n], objs)]
        names == {n \in DOMAIN sp : found[n].val # None}
    IN  IF \E n \in DOMAIN sp : found[n].err # NoErr
        THEN SpaceOut(sp, (CHOOSE e \in {found[n].err : n \in DOMAIN sp} : e # NoErr),
                      {}, EmptyDict)
        ELSE SpaceOut(sp, NoErr, {}, [n \in names |-> found[n].val])

\* TagSpace.remove_tags, the keyword pairs from pair i
RECURSIVE SpaceRemoveKwFrom(_, _, _, _)
SpaceRemoveKwFrom(sp, is_strict, kw_tags, i) ==
    IF i > Len(kw_tags) THEN SpaceOut(sp, NoErr, {}, EmptyDict)
    ELSE LET g == SpaceGetItem(sp, is_strict, kw_tags[i].name)
         IN  IF g.err # NoErr THEN g
             ELSE LET r == TagRemoveTags(g.space[kw_tags[i].name], kw_tags[i].arg)
                      sp2 == Put(g.space, kw_tags[i].name, r.tag)
                  IN  IF r.err # NoErr THEN SpaceOut(sp2, r.err, {}, EmptyDict)
                      ELSE SpaceRemoveKwFrom(sp2, is_strict, kw_tags, i + 1)

\* The plain names as they would be deleted by `self._mapping.pop(name, None)`:
\* a name that is not registered is passed over.
SpaceRemoveNamesLenient(sp, is_strict, tag_names, kw_tags, i) ==
    SpaceRemoveKwFrom([n \in (DOMAIN sp) \ Range(tag_names) |-> sp[n]],
                      is_strict, kw_tags, 1)

\* TagSpace.remove_tags, the plain names from name i, then the keyword pairs
RECURSIVE SpaceRemoveNamesFrom(_, _, _, _, _)
SpaceRemoveNamesFrom(sp, is_strict, tag_names, kw_tags, i) ==
    IF i > Len(tag_names) THEN SpaceRemoveKwFrom(sp, is_strict, kw_tags, 1)
    ELSE IF tag_names[i] \notin DOMAIN sp THEN SpaceOut(sp, KeyError, {}, EmptyDict)
    ELSE SpaceRemoveNamesFrom(Del(sp, tag_names[i]), is_strict, tag_names, kw_tags, i + 1)

SpaceRemoveTags(sp, is_strict, tag_names, kw_tags) ==
    SpaceRemoveNamesFrom(sp, is_strict, tag_names, kw_tags, 1)

\* TagSpace.remove_objs
SpaceRemoveObjs(sp, objs) ==
    LET done == [n \in DOMAIN sp |-> TagRemoveObjs(sp[n], objs)]
        after == [n \in DOMAIN sp |-> done[n].tag]
    IN  IF \E n \in DOMAIN sp : done[n].err # NoErr
        THEN SpaceOut(after, KeyError, {}, EmptyDict)
        ELSE SpaceOut(after, NoErr, {}, EmptyDict)

\* TagSpace.clear
SpaceClear(sp) == SpaceOut(EmptyDict, NoErr, {}, EmptyDict)

\* ------------------------------------------------------------------------
\* The arguments the calls are made with.
ObjSeqs == BSeq(Objs, MaxLen)
ValueLists == BSeq(Values, MaxLen)
TagValues == {Val(v) : v \in Values} \cup {Lst(vs) : vs \in ValueLists} \cup {Bad}
Selectors == TagValues \cup {Fun(p) : p \in SUBSET Values}

\* Keyword arguments of the TagSpace calls: at most MaxPairs name=arg pairs
\* with different names, in the order written.
\* Here the lists are those without repetition, in ascending order (the calls
\* on a Tag of its own take every list), and tag takes no list.
AscendingLists == {vs \in ValueLists : \A i, j \in 1..Len(vs) : i < j => vs[i] < vs[j]}
KwTagValues == {Val(v) : v \in Values} \cup {Bad}
KwSelectors == {Val(v) : v \in Values} \cup {Lst(vs) : vs \in AscendingLists}
               \cup {Fun(p) : p \in SUBSET Values} \cup {Bad}
Kw(Args) == {kw \in BSeq([name : Names, arg : Args], MaxPairs) :
                \A i, j \in 1..Len(kw) : kw[i].name = kw[j].name => i = j}

\* ------------------------------------------------------------------------
\* State.
VARIABLES
    tag,      \* a Tag object used on its own
    space,    \* TagSpace._mapping
    strict,   \* the is_strict the TagSpace was built with
    pc,       \* "idle": ready for the next call; "returned": a call has ended
    call,     \* the call last made
    ret,      \* what it returned or raised
    pre       \* tag and space as they were when it was made

vars == <<tag, space, strict, pc, call, ret, pre>>

Call(op, objs, arg, names, kw) ==
    [op |-> op, objs |-> objs, arg |-> arg, names |-> names, kw |-> kw]
NoCall == Call("none", <<>>, Bad, <<>>, <<>>)

Ret(err, objs, val, tags) == [err |-> err, objs |-> objs, val |-> val, tags |-> tags]
NoRet == Ret(NoErr, {}, None, EmptyDict)

Snapshot(t, sp) == [tag |-> t, space |-> sp]
NoSnapshot == Snapshot(NewTag, EmptyDict)

InitTag ==
    /\ tag = NewTag
    /\ space = EmptyDict
    /\ strict = FALSE
    /\ pc = "idle"
    /\ call = NoCall
    /\ ret = NoRet
    /\ pre = NoSnapshot

\* TagSpace.__init__
Init ==
    /\ tag = NewTag
    /\ space = EmptyDict
    /\ strict \in BOOLEAN
    /\ pc = "idle"
    /\ call = NoCall
    /\ ret = NoRet
    /\ pre = NoSnapshot

\* A call on the Tag ends: the tag it leaves and what the caller sees.
TagReturns(c, out) == \E r \in {out} :
    /\ pc' = "returned"
    /\ call' = c
    /\ pre' = Snapshot(tag, space)
    /\ tag' = r.tag
    /\ ret' = Ret(r.err, r.objs, r.val, EmptyDict)
    /\ UNCHANGED <<space, strict>>

\* A call on the TagSpace ends.
SpaceReturns(c, out) == \E r \in {out} :
    /\ Cardinality(DOMAIN r.space) <= MaxTags
    /\ pc' = "returned"
    /\ call' = c
    /\ pre' = Snapshot(tag, space)
    /\ space' = r.space
    /\ ret' = Ret(r.err, r.objs, None, r.tags)
    /\ UNCHANGED <<tag, strict>>

Tag_tag ==
    /\ pc = "idle"
    /\ \E objs \in ObjSeqs, tag_value \in TagValues :
        TagReturns(Call("Tag.tag", objs, tag_value, <<>>, <<>>),
                   TagTag(tag, objs, tag_value))

Tag_find_objs ==
    /\ pc = "idle"
    /\ \E tag_value \in Selectors :
        TagReturns(Call("Tag.find_objs", <<>>, tag_value, <<>>, <<>>),
                   TagFindObjs(tag, tag_value))

Tag_find_tag ==
    /\ pc = "idle"
    /\ \E objs \in ObjSeqs :
        TagReturns(Call("Tag.find_tag", objs, Bad, <<>>, <<>>), TagFindTag(tag, objs))

Tag_remove_tags ==
    /\ pc = "idle"
    /\ \E tag_value \in Selectors :
        TagReturns(Call("Tag.remove_tags", <<>>, tag_value, <<>>, <<>>),
                   TagRemoveTags(tag, tag_value))

Tag_remove_objs ==
    /\ pc = "idle"
    /\ \E objs \in ObjSeqs :
        TagReturns(Call("Tag.remove_objs", objs, Bad, <<>>, <<>>),
                   TagRemoveObjs(tag, objs))

Tag_clear ==
    /\ pc = "idle"
    /\ TagReturns(Call("Tag.clear", <<>>, Bad, <<>>, <<>>), TagClear(tag))

TagSpace_getitem ==
    /\ pc = "idle"
    /\ \E name \in Names :
        SpaceReturns(Call("TagSpace.__getitem__", <<>>, Bad, <<name>>, <<>>),
                     SpaceGetItem(space, strict, name))

TagSpace_tag ==
    /\ pc = "idle"
    /\ \E objs \in ObjSeqs, kw_tags \in Kw(KwTagValues) :
        SpaceReturns(Call("TagSpace.tag", objs, Bad, <<>>, kw_tags),
                     SpaceTag(space, strict, objs, kw_tags))

TagSpace_find_objs ==
    /\ pc = "idle"
    /\ \E kw_tags \in Kw(KwSelectors) :
        SpaceReturns(Call("TagSpace.find_objs", <<>>, Bad, <<>>, kw_tags),
                     SpaceFindObjs(space, strict, kw_tags))

TagSpace_find_tags ==
    /\ pc = "idle"
    /\ \E objs \in ObjSeqs :
        SpaceReturns(Call("TagSpace.find_tags", objs, Bad, <<>>, <<>>),
                     SpaceFindTags(space, objs))

TagSpace_remove_tags ==
    /\ pc = "idle"
    /\ \E tag_names \in BSeq(Names, MaxPairs), kw_tags \in Kw(KwSelectors) :
        /\ Len(tag_names) + Len(kw_tags) <= MaxPairs
        /\ SpaceReturns(Call("TagSpace.remove_tags", <<>>, Bad, tag_names, kw_tags),
                        SpaceRemoveTags(space, strict, tag_names, kw_tags))

TagSpace_remove_objs ==
    /\ pc = "idle"
    /\ \E objs \in ObjSeqs :
        SpaceReturns(Call("TagSpace.remove_objs", objs, Bad, <<>>, <<>>),
                     SpaceRemoveObjs(space, objs))

TagSpace_clear ==
    /\ pc = "idle"
    /\ SpaceReturns(Call("TagSpace.clear", <<>>, Bad, <<>>, <<>>), SpaceClear(space))

\* The caller is done with the result and is ready for its next call.
Return ==
    /\ pc = "returned"
    /\ pc' = "idle"
    /\ call' = NoCall
    /\ ret' = NoRet
    /\ pre' = NoSnapshot
    /\ UNCHANGED <<tag, space, strict>>

NextTag ==
    \/ Tag_tag
    \/ Tag_find_objs
    \/ Tag_find_tag
    \/ Tag_remove_tags
    \/ Tag_remove_objs
    \/ Tag_clear
    \/ Return

Next ==
    \/ TagSpace_getitem
    \/ TagSpace_tag
    \/ TagSpace_find_objs
    \/ TagSpace_find_tags
    \/ TagSpace_remove_tags
    \/ TagSpace_remove_objs
    \/ TagSpace_clear
    \/ Return

\* A Tag used on its own.
SpecTag == InitTag /\ [][NextTag]_vars

\* A TagSpace, strict or not.
Spec == Init /\ [][Next]_vars

\* ------------------------------------------------------------------------
\* Vocabulary of the properties.

\* The call `op` has just ended.
Returned(op) == pc = "returned" /\ call.op = op

\* The value object o holds in tag t, None when it holds none.
ValueIn(t, o) == IF o \in DOMAIN t.reverse THEN t.reverse[o] ELSE None

\* The value object o holds under tag name n of the TagSpace mapping sp.
ValueOf(sp, n, o) == IF n \in DOMAIN sp THEN ValueIn(sp[n], o) ELSE None

\* The objects in the set of value v of tag t (none when v is no key).
ObjsOf(t, v) == IF v \in DOMAIN t.mapping THEN t.mapping[v] ELSE {}

\* Value v is selected by selector a.
Selected(v, a) ==
    \/ a.kind = "value" /\ v = a.v
    \/ a.kind = "list" /\ v \in Range(a.vs)
    \/ a.kind = "func" /\ v \in a.p

\* Forward and reverse maps of tag t agree and no object is in two sets.
Exclusive(t) ==
    \A o \in Objs :
        /\ Cardinality({v \in DOMAIN t.mapping : o \in t.mapping[v]}) <= 1
        /\ \A v \in DOMAIN t.mapping : o \in t.mapping[v] <=> ValueIn(t, o) = v
        /\ o \in DOMAIN t.reverse => o \in ObjsOf(t, t.reverse[o])

\* ------------------------------------------------------------------------
\* C1.  Exclusivity invariant of a Tag: whatever sequence of tag (a single
\* value or a parallel list of values), find_objs, find_tag, remove_tags,
\* remove_objs and clear has been made, each object is in the set of at most
\* one value, and o is in the set of v exactly when the reverse map sends o
\* to v.
C1_Exclusivity == Exclusive(tag)

\* C1 witness: a tag call has moved an object from one value to another while
\* another object holds a value.
C1_Witness ==
    /\ Returned("Tag.tag")
    /\ ret.err = NoErr
    /\ \E o, o2 \in Objs :
        /\ o # o2
        /\ ValueIn(pre.tag, o) # None
        /\ ValueIn(tag, o) # None
        /\ ValueIn(tag, o) # ValueIn(pre.tag, o)
        /\ ValueIn(tag, o2) # None

\* ------------------------------------------------------------------------
\* C2.  TagSpace.find_objs with one or more name=selector pairs, when it
\* returns, returns exactly the objects whose value under every named tag,
\* at the time of the call, is selected by that pair's selector.
C2_FindIsIntersection ==
    Returned("TagSpace.find_objs") /\ ret.err = NoErr =>
        /\ Len(call.kw) >= 1
        /\ ret.objs = {o \in Objs : \A i \in 1..Len(call.kw) :
                          /\ ValueOf(pre.space, call.kw[i].name, o) # None
                          /\ Selected(ValueOf(pre.space, call.kw[i].name, o),
                                      call.kw[i].arg)}

\* C2 witness: a find over two tags, by a list of two values and by a
\* predicate, returned some objects and left out one that the list selects.
C2_Witness ==
    /\ Returned("TagSpace.find_objs")
    /\ ret.err = NoErr
    /\ Len(call.kw) = 2
    /\ call.kw[1].arg.kind = "list"
    /\ Len(call.kw[1].arg.vs) = 2
    /\ call.kw[2].arg.kind = "func"
    /\ ret.objs # {}
    /\ \E o \in Objs \ ret.objs :
          Selected(ValueOf(pre.space, call.kw[1].name, o), call.kw[1].arg)

\* ------------------------------------------------------------------------
\* C3.  Retagging moves the object: after TagSpace.tag(objs, name=v, ...)
\* succeeds, for every pair with a tag name (no reserved prefix) every object
\* given is found under v of that tag and under no other value of it,
\* whatever it held before, and every object not given holds under that tag
\* what it held before.
C3_RetagMoves ==
    Returned("TagSpace.tag") /\ ret.err = NoErr =>
        \A i \in 1..Len(call.kw) :
            is_tag_name(call.kw[i].name) /\ call.kw[i].arg.kind = "value" =>
                LET n == call.kw[i].name
                    v == call.kw[i].arg.v
                IN  /\ Len(call.objs) > 0 => n \in DOMAIN space
                    /\ \A o \in Range(call.objs) :
                          /\ o \in TagFindObjs(space[n], Val(v)).objs
                          /\ \A w \in Values \ {v} :
                                o \notin TagFindObjs(space[n], Val(w)).objs
                    /\ \A o \in Objs \ Range(call.objs) :
                          /\ ValueOf(space, n, o) = ValueOf(pre.space, n, o)
                          /\ \A w \in Values :
                                n \in DOMAIN space =>
                                    (o \in TagFindObjs(space[n], Val(w)).objs
                                        <=> ValueOf(pre.space, n, o) = w)

\* C3 witness: an object that held another value was retagged while an
\* object not passed to the call holds a value under the same tag.
C3_Witness ==
    /\ Returned("TagSpace.tag")
    /\ ret.err = NoErr
    /\ \E i \in 1..Len(call.kw), o \in Range(call.objs), o2 \in Objs \ Range(call.objs) :
        /\ call.kw[i].arg.kind = "value"
        /\ ValueOf(pre.space, call.kw[i].name, o) \notin {None, call.kw[i].arg.v}
        /\ ValueOf(space, call.kw[i].name, o) = call.kw[i].arg.v
        /\ ValueOf(space, call.kw[i].name, o2) # None

\* ------------------------------------------------------------------------
\* C4.  Tag.find_objs with a predicate never raises and returns the union of
\* the sets of the values present that satisfy the predicate: the empty set
\* when the tag holds no value or no present value satisfies it.
C4_PredicateFindNeverRaises ==
    Returned("Tag.find_objs") /\ call.arg.kind = "func" =>
        /\ ret.err = NoErr
        /\ ret.objs = UNION {ObjsOf(pre.tag, v) : v \in call.arg.p}

\* ------------------------------------------------------------------------
\* The values selector a qualifies in tag t: the value, the values of the
\* list, the keys present that satisfy the predicate.
Qualified(t, a) ==
    IF a.kind = "value" THEN {a.v}
    ELSE IF a.kind = "list" THEN Range(a.vs)
    ELSE IF a.kind = "func" THEN {v \in DOMAIN t.mapping : v \in a.p}
    ELSE {}

\* The tag a keyword pair of the remove_tags call just made acted on: the one
\* registered under n when the call was made, unless one of the call's plain
\* names deleted it first.
RemovedFrom(n) ==
    IF n \in DOMAIN pre.space /\ n \notin Range(call.names) THEN pre.space[n] ELSE NewTag

\* C5.  After TagSpace.remove_tags(name=selector, ...) returns, every value
\* the selector qualifies has no objects: find_objs for that value returns
\* the empty set without error, and find_tag on any object that held such a
\* value yields no value.
C5_RemovedValuesAreEmpty ==
    Returned("TagSpace.remove_tags") /\ ret.err = NoErr =>
        \A i \in 1..Len(call.kw) :
            LET n == call.kw[i].name
                q == Qualified(RemovedFrom(n), call.kw[i].arg)
            IN  /\ n \in DOMAIN space
                /\ \A v \in q :
                      /\ TagFindObjs(space[n], Val(v)).err = NoErr
                      /\ TagFindObjs(space[n], Val(v)).objs = {}
                /\ \A o \in Objs :
                      ValueIn(RemovedFrom(n), o) \in q =>
                          /\ TagFindTag(space[n], <<o>>).err = NoErr
                          /\ TagFindTag(space[n], <<o>>).val = None

\* C5 witness: a predicate removed the value one object held and left the
\* value of another object alone.
C5_Witness ==
    /\ Returned("TagSpace.remove_tags")
    /\ ret.err = NoErr
    /\ \E i \in 1..Len(call.kw), o, o2 \in Objs :
        /\ call.kw[i].arg.kind = "func"
        /\ call.kw[i].name \in DOMAIN pre.space
        /\ ValueOf(pre.space, call.kw[i].name, o)
              \in Qualified(pre.space[call.kw[i].name], call.kw[i].arg)
        /\ ValueOf(space, call.kw[i].name, o) = None
        /\ ValueOf(space, call.kw[i].name, o2) # None

\* ------------------------------------------------------------------------
\* C6.  Removal is local: TagSpace.remove_tags(name=value), whether it
\* returns or raises, changes neither the set of objects of any other value
\* under that name, nor any other tag, nor which other names are registered.
C6_RemovalIsLocal ==
    ( /\ Returned("TagSpace.remove_tags")
      /\ call.names = <<>>
      /\ Len(call.kw) = 1
      /\ call.kw[1].arg.kind = "value" ) =>
        LET n == call.kw[1].name
            v == call.kw[1].arg.v
        IN  /\ \A w \in Values \ {v} :
                  /\ {o \in Objs : ValueOf(space, n, o) = w}
                        = {o \in Objs : ValueOf(pre.space, n, o) = w}
                  /\ n \in DOMAIN pre.space =>
                        /\ n \in DOMAIN space
                        /\ ObjsOf(space[n], w) = ObjsOf(pre.space[n], w)
            /\ \A m \in Names \ {n} :
                  /\ m \in DOMAIN space <=> m \in DOMAIN pre.space
                  /\ m \in DOMAIN space => space[m] = pre.space[m]

\* C6 witness: the value removed had an object, another value under the same
\* name has one, and so has another tag.
C6_Witness ==
    /\ Returned("TagSpace.remove_tags")
    /\ ret.err = NoErr
    /\ call.names = <<>>
    /\ Len(call.kw) = 1
    /\ call.kw[1].arg.kind = "value"
    /\ \E o, o2, o3 \in Objs, m \in Names \ {call.kw[1].name} :
        /\ ValueOf(pre.space, call.kw[1].name, o) = call.kw[1].arg.v
        /\ ValueOf(space, call.kw[1].name, o) = None
        /\ ValueOf(space, call.kw[1].name, o2) # None
        /\ ValueOf(space, m, o3) # None

\* ------------------------------------------------------------------------
\* C7.  TagSpace.remove_objs(objs) never raises and takes the objects out of
\* every registered tag: no find_objs on any tag, with any selector, returns
\* one of them, find_tags on them is empty, every other object keeps its
\* value under every tag, the registered names stay, and a second
\* remove_objs(objs) changes nothing.
C7_RemoveObjs ==
    Returned("TagSpace.remove_objs") =>
        /\ ret.err = NoErr
        /\ \A n \in DOMAIN space, a \in Selectors :
              TagFindObjs(space[n], a).objs \cap Range(call.objs) = {}
        /\ \A o \in Range(call.objs) :
              /\ SpaceFindTags(space, <<o>>).err = NoErr
              /\ DOMAIN SpaceFindTags(space, <<o>>).tags = {}
        /\ Len(call.objs) > 0 =>
              /\ SpaceFindTags(space, call.objs).err = NoErr
              /\ DOMAIN SpaceFindTags(space, call.objs).tags = {}
        /\ \A n \in Names, o \in Objs \ Range(call.objs) :
              ValueOf(space, n, o) = ValueOf(pre.space, n, o)
        /\ DOMAIN space = DOMAIN pre.space
        /\ SpaceRemoveObjs(space, call.objs).err = NoErr
        /\ SpaceRemoveObjs(space, call.objs).space = space

\* C7 witness: the object removed held values under two tags, and another
\* object, not removed, holds one.
C7_Witness ==
    /\ Returned("TagSpace.remove_objs")
    /\ ret.err = NoErr
    /\ \E o \in Range(call.objs), o2 \in Objs \ Range(call.objs) :
        /\ \A n \in {NameP, NameQ} : ValueOf(pre.space, n, o) # None
        /\ \E n \in Names : ValueOf(space, n, o2) # None

\* ------------------------------------------------------------------------
\* C8.  Shared-value lookup is all-or-nothing.  Between calls, for every
\* registered tag and every non-empty sequence of objects, in any order,
\* Tag.find_tag gives v
\* exactly when every object holds v under that tag, and None otherwise; and
\* TagSpace.find_tags(objs) maps a name to v exactly when the name is
\* registered and its find_tag gives v, leaving out all other names.
C8_SharedValue ==
    /\ pc = "idle" => \A n \in DOMAIN space, objs \in ObjSeqs \ {<<>>} :
          /\ TagFindTag(space[n], objs).err = NoErr
          /\ TagFindTag(space[n], objs).val \in Values \cup {None}
          /\ \A v \in Values :
                TagFindTag(space[n], objs).val = v
                    <=> \A o \in Range(objs) : ValueIn(space[n], o) = v
    /\ Returned("TagSpace.find_tags") /\ Len(call.objs) > 0 =>
          /\ ret.err = NoErr
          /\ DOMAIN ret.tags = {n \in DOMAIN space :
                                  TagFindTag(space[n], call.objs).val # None}
          /\ \A n \in DOMAIN ret.tags :
                ret.tags[n] = TagFindTag(space[n], call.objs).val

\* C8 witness: find_tags on two objects that share their value under one tag
\* and hold different values under another returned the first tag only.
C8_Witness ==
    /\ Returned("TagSpace.find_tags")
    /\ ret.err = NoErr
    /\ \E o, o2 \in Objs, n, m \in DOMAIN space :
        /\ call.objs = <<o, o2>>
        /\ o # o2
        /\ n \in DOMAIN ret.tags
        /\ m \notin DOMAIN ret.tags
        /\ ValueIn(space[m], o) # None
        /\ ValueIn(space[m], o2) # None

\* ------------------------------------------------------------------------
\* C9, as claimed.  No partial application on error: a call that raises
\* leaves the indices as they were before the call, so that every object
\* holds under every tag name the value it held; TagSpace.tag applies none of
\* its pairs when a later pair is invalid, and TagSpace.remove_tags deletes
\* nothing when one of its names or pairs is invalid.
C9_NoPartialApplication ==
    pc = "returned" /\ ret.err # NoErr =>
        \A n \in Names, o \in Objs : ValueOf(space, n, o) = ValueOf(pre.space, n, o)

\* The mapping once self._mapping[n] has been read without finding n: a
\* defaultdict(Tag) has registered n with a fresh Tag, a dict has not.
Registered(sp, n) == IF strict \/ n \in DOMAIN sp THEN sp ELSE Put(sp, n, NewTag)

\* C9, amended.  A call that raises keeps what it did before the failing name
\* or pair and does nothing after it.  The tag of the failing pair is as it
\* was (a Tag method that rejects its argument changes nothing), except
\* that a non-strict TagSpace has registered the pair's name if it was not.
\* TagSpace.tag keeps the earlier pairs applied, TagSpace.find_objs keeps the
\* names and value slots the earlier pairs created, TagSpace.remove_tags
\* keeps the earlier plain names deleted and the earlier pairs removed.
C9_FailingCallKeepsEarlierPairs ==
    pc = "returned" /\ ret.err # NoErr =>
        /\ tag = pre.tag
        /\ call.op = "TagSpace.tag" =>
              \E i \in 1..Len(call.kw) :
                  LET d == SpaceTag(pre.space, strict, call.objs, SubSeq(call.kw, 1, i - 1))
                  IN  /\ d.err = NoErr
                      /\ space = Registered(d.space, call.kw[i].name)
        /\ call.op = "TagSpace.find_objs" =>
              \/ call.kw = <<>> /\ space = pre.space
              \/ \E i \in 1..Len(call.kw) :
                  LET d == SpaceFindObjs(pre.space, strict, SubSeq(call.kw, 1, i - 1))
                  IN  /\ i > 1 => d.err = NoErr
                      /\ space = Registered(d.space, call.kw[i].name)
        /\ call.op = "TagSpace.remove_tags" =>
              \/ \E j \in 1..Len(call.names) :
                  LET d == SpaceRemoveTags(pre.space, strict,
                                           SubSeq(call.names, 1, j - 1), <<>>)
                  IN  /\ d.err = NoErr
                      /\ call.names[j] \notin DOMAIN d.space
                      /\ space = d.space
              \/ \E i \in 1..Len(call.kw) :
                  LET d == SpaceRemoveTags(pre.space, strict, call.names,
                                           SubSeq(call.kw, 1, i - 1))
                  IN  /\ d.err = NoErr
                      /\ space = Registered(d.space, call.kw[i].name)
        /\ call.op \notin {"TagSpace.tag", "TagSpace.find_objs", "TagSpace.remove_tags"}
              => space = pre.space

\* C9 witness: TagSpace.tag raised on its second pair and the first pair's
\* value is set.
C9_Witness ==
    /\ Returned("TagSpace.tag")
    /\ ret.err = ValueError
    /\ Len(call.kw) = 2
    /\ call.kw[1].arg.kind = "value"
    /\ \E o \in Range(call.objs) :
        /\ ValueOf(pre.space, call.kw[1].name, o) # call.kw[1].arg.v
        /\ ValueOf(space, call.kw[1].name, o) = call.kw[1].arg.v

\* ------------------------------------------------------------------------
\* C10, as claimed.  TagSpace.find_objs fails with an unknown-tag error
\* whenever one of its pairs names a tag that is not registered, strict or
\* not, and does not register the name.
C10_UnknownTagAlwaysFails ==
    Returned("TagSpace.find_objs") =>
        \A i \in 1..Len(call.kw) :
            call.kw[i].name \notin DOMAIN pre.space =>
                /\ ret.err = KeyError
                /\ call.kw[i].name \notin DOMAIN space

\* C10, amended.  Only a strict TagSpace fails so: there find_objs raises
\* KeyError when a pair names a tag that is not registered, and registers
\* nothing.  A non-strict TagSpace raises no unknown-tag error: every pair it
\* gets to has its name registered, a new name with an index that holds no
\* object, and only the names of the call are registered.
C10_UnknownTagFailsWhenStrict ==
    Returned("TagSpace.find_objs") =>
        LET unknown == {i \in 1..Len(call.kw) : call.kw[i].name \notin DOMAIN pre.space}
        IN  /\ strict /\ unknown # {} => ret.err = KeyError /\ space = pre.space
            /\ ~strict =>
                  /\ ret.err # KeyError
                  /\ ret.err = NoErr =>
                        \A i \in 1..Len(call.kw) : call.kw[i].name \in DOMAIN space
                  /\ \A n \in (DOMAIN space) \ DOMAIN pre.space :
                        /\ \E i \in unknown : call.kw[i].name = n
                        /\ DOMAIN space[n].reverse = {}
                  /\ DOMAIN pre.space \subseteq DOMAIN space

\* C10 witness: a non-strict find_objs on an unregistered name returned and
\* the name is registered.
C10_Witness ==
    /\ Returned("TagSpace.find_objs")
    /\ ~strict
    /\ ret.err = NoErr
    /\ \E i \in 1..Len(call.kw) :
        /\ call.kw[i].name \notin DOMAIN pre.space
        /\ call.kw[i].name \in DOMAIN space

\* ------------------------------------------------------------------------
\* The plain names of the call just made that were not registered when their
\* turn came: not registered when the call was made, or given twice.
UnknownPlain ==
    {j \in 1..Len(call.names) :
        \/ call.names[j] \notin DOMAIN pre.space
        \/ \E k \in 1..(j - 1) : call.names[k] = call.names[j]}

\* The keyword pairs of the call just made whose name was not registered when
\* the call was made.
UnknownPairs == {i \in 1..Len(call.kw) : call.kw[i].name \notin DOMAIN pre.space}

\* C11, as claimed.  TagSpace.remove_tags fails with an unknown-tag error for
\* an unregistered tag name in either form, as a plain name and as the name of
\* a name=selector pair, strict or not.
C11_UnknownNameAlwaysFails ==
    Returned("TagSpace.remove_tags") /\ (UnknownPlain # {} \/ UnknownPairs # {})
        => ret.err = KeyError

\* C11, amended.  A plain name that is not registered makes remove_tags raise
\* KeyError, strict or not.  The name of a name=selector pair that is not
\* registered makes it raise KeyError in a strict TagSpace only; a non-strict
\* TagSpace registers the name with an index holding no object and goes on,
\* so that with every plain name registered it raises no KeyError and, when
\* it returns, every name of its pairs is registered.
C11_UnknownNameFails ==
    Returned("TagSpace.remove_tags") =>
        /\ UnknownPlain # {} => ret.err = KeyError
        /\ strict /\ UnknownPairs # {} => ret.err = KeyError /\ space = pre.space
        /\ ~strict /\ UnknownPlain = {} =>
              /\ ret.err # KeyError
              /\ Range(call.names) \cap DOMAIN space
                    \subseteq {call.kw[i].name : i \in 1..Len(call.kw)}
              /\ ret.err = NoErr =>
                    \A i \in 1..Len(call.kw) : call.kw[i].name \in DOMAIN space
              /\ \A i \in UnknownPairs :
                    call.kw[i].name \in DOMAIN space
                        => DOMAIN space[call.kw[i].name].reverse = {}

\* C11 witness: a non-strict remove_tags with a registered plain name and a
\* pair on an unregistered name returned; the first name is gone and the
\* second is registered.
C11_Witness ==
    /\ Returned("TagSpace.remove_tags")
    /\ ~strict
    /\ ret.err = NoErr
    /\ Len(call.names) = 1
    /\ Len(call.kw) = 1
    /\ call.names[1] \in DOMAIN pre.space
    /\ call.names[1] \notin DOMAIN space
    /\ call.kw[1].name \notin DOMAIN pre.space
    /\ call.kw[1].name \in DOMAIN space

\* ------------------------------------------------------------------------
\* C12.  TagSpace.find_objs with no name=selector pair returns the empty set:
\* it raises nothing and returns no object, whatever the TagSpace holds.
C12_EmptyQueryReturnsEmptySet ==
    Returned("TagSpace.find_objs") /\ call.kw = <<>> =>
        /\ ret.err = NoErr
        /\ ret.objs = {}

\* ------------------------------------------------------------------------
\* C13.  Tag-name existence policy.  In a strict TagSpace, tag(objs, name=value)
\* with a tag name (no reserved prefix) that is not registered raises
\* KeyError, and no call of tag, find_objs or remove_tags adds a registered
\* name.  In a non-strict TagSpace tag raises no KeyError, and when it returns
\* every tag name of its pairs is registered, one not seen before included,
\* and the objects given are found under that name and value.
C13_NameExistencePolicy ==
    /\ Returned("TagSpace.tag") =>
          LET valid == {i \in 1..Len(call.kw) : is_tag_name(call.kw[i].name)}
          IN  /\ strict /\ (\E i \in valid : call.kw[i].name \notin DOMAIN pre.space)
                    => ret.err = KeyError
              /\ ~strict => ret.err # KeyError
              /\ ~strict /\ ret.err = NoErr =>
                    \A i \in valid :
                        /\ call.kw[i].name \in DOMAIN space
                        /\ SpaceFindObjs(space, strict, <<call.kw[i]>>).err = NoErr
                        /\ Range(call.objs)
                              \subseteq SpaceFindObjs(space, strict, <<call.kw[i]>>).objs
    /\ ( /\ strict
         /\ pc = "returned"
         /\ call.op \in {"TagSpace.tag", "TagSpace.find_objs", "TagSpace.remove_tags"} )
          => DOMAIN space \subseteq DOMAIN pre.space

\* C13 witness: a non-strict tag call on a name not registered before
\* returned, and an object it was given is found under the name and value.
C13_Witness ==
    /\ Returned("TagSpace.tag")
    /\ ~strict
    /\ ret.err = NoErr
    /\ \E i \in 1..Len(call.kw), o \in Range(call.objs) :
        /\ call.kw[i].name \notin DOMAIN pre.space
        /\ call.kw[i].name \in DOMAIN space
        /\ o \in SpaceFindObjs(space, strict, <<call.kw[i]>>).objs

\* ------------------------------------------------------------------------
\* C14.  Idempotent re-tag: once Tag.tag has tagged objects with a value (or
\* with a parallel list of values), making the same call again leaves the
\* forward and the reverse map exactly as the first call left them, and so
\* does tagging any one of the objects with the value again.
C14_RetagIdempotent ==
    Returned("Tag.tag") /\ ret.err = NoErr =>
        /\ TagTag(tag, call.objs, call.arg).err = NoErr
        /\ TagTag(tag, call.objs, call.arg).tag = tag
        /\ call.arg.kind = "value" =>
              \A o \in Range(call.objs) :
                  /\ _tag(tag, o, call.arg.v).err = NoErr
                  /\ _tag(tag, o, call.arg.v).tag = tag
                  /\ TagTag(tag, <<o>>, call.arg).tag = tag

\* C14 witness: an object was tagged with the value it already held, by a call
\* that left the maps as they were, while another object holds another value.
C14_Witness ==
    /\ Returned("Tag.tag")
    /\ ret.err = NoErr
    /\ call.arg.kind = "value"
    /\ tag = pre.tag
    /\ \E o \in Range(call.objs), o2 \in Objs :
        /\ ValueIn(pre.tag, o) = call.arg.v
        /\ ValueIn(tag, o) = call.arg.v
        /\ ValueIn(tag, o2) \notin {None, call.arg.v}

\* ------------------------------------------------------------------------
\* C15.  Query intersection is commutative: whenever TagSpace.find_objs has
\* been called with two pairs a=X, b=Y, the call with the pairs the other way
\* round, made on the same TagSpace, has the same outcome: it returns the same
\* set, or both calls raise.
C15_FindCommutes ==
    Returned("TagSpace.find_objs") /\ Len(call.kw) = 2 =>
        LET swapped == SpaceFindObjs(pre.space, strict, <<call.kw[2], call.kw[1]>>)
        IN  /\ (ret.err = NoErr) <=> (swapped.err = NoErr)
            /\ ret.err = NoErr => ret.objs = swapped.objs

\* C15 witness: a two-pair find on two registered tags, whose pairs select
\* different sets, returned a non-empty set, and so does the call with the
\* pairs the other way round.
C15_Witness ==
    /\ Returned("TagSpace.find_objs")
    /\ ret.err = NoErr
    /\ Len(call.kw) = 2
    /\ call.kw[1].name \in DOMAIN pre.space
    /\ call.kw[2].name \in DOMAIN pre.space
    /\ ret.objs # {}
    /\ LET s1 == TagFindObjs(pre.space[call.kw[1].name], call.kw[1].arg).objs
           s2 == TagFindObjs(pre.space[call.kw[2].name], call.kw[2].arg).objs
       IN  /\ s1 # s2
           /\ ret.objs = s1 \cap s2
           /\ ret.objs = SpaceFindObjs(pre.space, strict, <<call.kw[2], call.kw[1]>>).objs

\* ------------------------------------------------------------------------
\* C16.  Parallel value assignment pairs by position: Tag.tag(o1..on,
\* tag_value=[v1..vk]) raises nothing, whether or not n = k; object oi gets
\* value vi for every i up to min(n, k), the last such position winning for
\* an object given twice; every other object keeps the value it held.
C16_ParallelPairsByPosition ==
    Returned("Tag.tag") /\ call.arg.kind = "list" =>
        LET n == Len(call.objs)
            k == Len(call.arg.vs)
            m == IF n < k THEN n ELSE k
            at(o) == {i \in 1..m : call.objs[i] = o}
            last(o) == CHOOSE i \in at(o) : \A j \in at(o) : j <= i
        IN  /\ ret.err = NoErr
            /\ \A o \in Objs :
                  ValueIn(tag, o) = IF at(o) # {} THEN call.arg.vs[last(o)]
                                    ELSE ValueIn(pre.tag, o)

\* ------------------------------------------------------------------------
\* C17.  Tag.find_objs with a list or tuple of values never raises and
\* returns the union of the sets of the listed values: a value that was never
\* used adds nothing, and the empty list gives the empty set.
C17_ListFindIsUnion ==
    Returned("Tag.find_objs") /\ call.arg.kind = "list" =>
        /\ ret.err = NoErr
        /\ ret.objs = UNION {ObjsOf(pre.tag, v) : v \in Range(call.arg.vs)}

\* ------------------------------------------------------------------------
\* C18, as claimed.  After Tag.remove_tags has removed a value, the value is
\* still a key of the forward map, with an empty set of objects.
C18_RemovedSlotStays ==
    Returned("Tag.remove_tags") /\ ret.err = NoErr =>
        \A v \in Qualified(pre.tag, call.arg) \cap DOMAIN pre.tag.mapping :
            /\ v \in DOMAIN tag.mapping
            /\ tag.mapping[v] = {}

\* C18, amended.  After Tag.remove_tags returns, the values it removed are no
\* keys of the forward map: its keys are those it had less the values the
\* selector qualifies, each with the set it had.  A later find_objs on a
\* removed value returns the empty set without error and makes the value a
\* key again; a later predicate is evaluated on the remaining keys only, so
\* that its outcome does not depend on what it says of a removed value.
C18_RemovedSlotDeleted ==
    Returned("Tag.remove_tags") /\ ret.err = NoErr =>
        LET removed == Qualified(pre.tag, call.arg)
        IN  /\ DOMAIN tag.mapping = (DOMAIN pre.tag.mapping) \ removed
            /\ \A w \in DOMAIN tag.mapping : tag.mapping[w] = pre.tag.mapping[w]
            /\ \A v \in removed :
                  /\ TagFindObjs(tag, Val(v)).err = NoErr
                  /\ TagFindObjs(tag, Val(v)).objs = {}
                  /\ TagFindObjs(tag, Val(v)).tag.mapping = Put(tag.mapping, v, {})
            /\ \A p \in SUBSET Values :
                  /\ TagFindObjs(tag, Fun(p)).err = TagFindObjs(tag, Fun(p \ removed)).err
                  /\ TagFindObjs(tag, Fun(p)).objs = TagFindObjs(tag, Fun(p \ removed)).objs

\* C18 witness: remove_tags removed a value that had an object; the value is
\* no key any more, and another value is still a key with its object.
C18_Witness ==
    /\ Returned("Tag.remove_tags")
    /\ ret.err = NoErr
    /\ \E v \in Qualified(pre.tag, call.arg), w \in DOMAIN tag.mapping :
        /\ ObjsOf(pre.tag, v) # {}
        /\ v \notin DOMAIN tag.mapping
        /\ tag.mapping[w] # {}

\* ------------------------------------------------------------------------
\* C19.  Every name registered in the TagSpace is a valid tag name, non-empty
\* and without the reserved prefix, whatever calls of tag, find_objs,
\* remove_tags, remove_objs, clear and space[name] have been made; and tag
\* passes over the pairs whose name is not valid, registering nothing for
\* them.
C19_RegisteredNamesValid ==
    /\ \A n \in DOMAIN space : Len(n) > 0 /\ is_tag_name(n)
    /\ Returned("TagSpace.tag") =>
          \A i \in 1..Len(call.kw) :
              ~is_tag_name(call.kw[i].name) =>
                  (call.kw[i].name \in DOMAIN space <=> call.kw[i].name \in DOMAIN pre.space)

\* ------------------------------------------------------------------------
\* C20.  find_objs is read-only.  A call of TagSpace.find_objs, whether it
\* returns or raises, leaves the registered names, the values present in each
\* tag and every object's value as they were, so that a later
\* remove_tags(name) raises or not, and a later find_tags returns, as it
\* would have without the find; and Tag.find_objs on any registered tag, with
\* any selector, leaves the tag's values and objects as they were.
C20_FindIsReadOnly ==
    /\ Returned("TagSpace.find_objs") =>
          /\ DOMAIN space = DOMAIN pre.space
          /\ \A n \in DOMAIN space \cap DOMAIN pre.space :
                DOMAIN space[n].mapping = DOMAIN pre.space[n].mapping
          /\ \A n \in Names, o \in Objs : ValueOf(space, n, o) = ValueOf(pre.space, n, o)
          /\ \A n \in Names :
                SpaceRemoveTags(space, strict, <<n>>, <<>>).err
                    = SpaceRemoveTags(pre.space, strict, <<n>>, <<>>).err
          /\ \A objs \in ObjSeqs :
                SpaceFindTags(space, objs).tags = SpaceFindTags(pre.space, objs).tags
    /\ pc = "idle" =>
          \A n \in DOMAIN space, a \in Selectors :
              /\ DOMAIN TagFindObjs(space[n], a).tag.mapping = DOMAIN space[n].mapping
              /\ TagFindObjs(space[n], a).tag.reverse = space[n].reverse

====
